---- MODULE Spec2Model ----
(***************************************************************************)
(* Model of the decision core of the Polymarket trading bot:               *)
(*   RiskManager        (src/src/types.ts, second half)                    *)
(*   ShortTermStrategy  (src/unnamed/part_002)                             *)
(*   TradingBot         (src/src/signing.ts, second half)                  *)
(*                                                                         *)
(* JavaScript numbers are modelled as exact rationals extended with NaN,   *)
(* +Infinity and -Infinity, so that a division by zero produces what the   *)
(* program produces.  IEEE rounding and the sign of zero are not modelled. *)
(***************************************************************************)
EXTENDS Integers, Sequences, FiniteSets, TLC

VARIABLES
    config,       \* TradingBot.config / RiskManager.config (TradingConfig)
    dailyPnL,     \* RiskManager.dailyPnL
    positions,    \* TradingBot.positions: Map<string, Position> in insertion order
    signal,       \* the TradeSignal handed to the RiskManager by the caller
    rmCall,       \* the last RiskManager call of the caller and what it returned
    klines,       \* the KLine[] returned by KLineClient.get15mKlines
    stCall,       \* the last ShortTermStrategy call of the caller and what it returned
    isRunning,    \* TradingBot.isRunning
    pc,           \* where TradingBot.start / tick stands
    activeMarkets,\* tick: the markets of the entry loop not yet processed
    exitIdx,      \* checkExitSignals: index of the ledger entry the iterator is at
    cycles,       \* number of ticks started
    submitted,    \* the order handed to placeOrder in the step just taken, if any
    caught        \* whether the step just taken caught a thrown error

riskVars == <<config, dailyPnL, positions, signal, rmCall>>
stratVars == <<klines, stCall>>
loopVars == <<isRunning, pc, activeMarkets, exitIdx, cycles, submitted, caught>>
vars == <<config, dailyPnL, positions, signal, rmCall, klines, stCall,
          isRunning, pc, activeMarkets, exitIdx, cycles, submitted, caught>>

----------------------------------------------------------------------------
(* JavaScript numbers *)

\* The operators on numbers are functions, so that an operand is evaluated
\* once however often the definition uses it.

GcdOf[a \in Nat, b \in Nat] == IF b = 0 THEN a ELSE GcdOf[b, a % b]

GCD(a, b) == GcdOf[a, b]

Abs(i) == IF i < 0 THEN -i ELSE i

\* the number n/d (d # 0) in lowest terms with a positive denominator
Ratio[n \in Int, d \in Int] ==
    LET g == GcdOf[Abs(n), Abs(d)]
    IN  IF d < 0 THEN [n |-> -(n \div g), d |-> -(d \div g)]
        ELSE [n |-> n \div g, d |-> d \div g]

R(n, d) == Ratio[n, d]

I(i) == [n |-> i, d |-> 1]

NaN == [n |-> 0, d |-> 0]
PosInf == [n |-> 1, d |-> 0]
NegInf == [n |-> -1, d |-> 0]

\* the values a JavaScript number takes here: ratios, NaN and the infinities
Num == [n : Int, d : Nat]

IsNaN(x) == x.d = 0 /\ x.n = 0
IsFinite(x) == x.d > 0
Sign(x) == IF x.n < 0 THEN -1 ELSE 1

Neg(x) == [n |-> -x.n, d |-> x.d]

AddNum[x \in Num, y \in Num] ==
    IF IsNaN(x) \/ IsNaN(y) THEN NaN
    ELSE IF x.d = 0 /\ y.d = 0 THEN (IF x.n = y.n THEN x ELSE NaN)
    ELSE IF x.d = 0 THEN x
    ELSE IF y.d = 0 THEN y
    ELSE Ratio[x.n * y.d + y.n * x.d, x.d * y.d]

Add(x, y) == AddNum[x, y]

Sub(x, y) == AddNum[x, Neg(y)]

MulNum[x \in Num, y \in Num] ==
    IF IsNaN(x) \/ IsNaN(y) THEN NaN
    ELSE IF x.d = 0 \/ y.d = 0
         THEN (IF x.n = 0 \/ y.n = 0 THEN NaN
               ELSE [n |-> Sign(x) * Sign(y), d |-> 0])
    ELSE LET g1 == GcdOf[Abs(x.n), y.d]
             g2 == GcdOf[Abs(y.n), x.d]
         IN  Ratio[(x.n \div g1) * (y.n \div g2), (x.d \div g2) * (y.d \div g1)]

Mul(x, y) == MulNum[x, y]

DivNum[x \in Num, y \in Num] ==
    IF IsNaN(x) \/ IsNaN(y) THEN NaN
    ELSE IF x.d = 0 /\ y.d = 0 THEN NaN
    ELSE IF x.d = 0 THEN [n |-> Sign(x) * Sign(y), d |-> 0]
    ELSE IF y.d = 0 THEN I(0)
    ELSE IF y.n = 0 THEN (IF x.n = 0 THEN NaN ELSE [n |-> Sign(x), d |-> 0])
    ELSE LET g1 == GcdOf[Abs(x.n), Abs(y.n)]
             g2 == GcdOf[y.d, x.d]
         IN  Ratio[(x.n \div g1) * (y.d \div g2), (x.d \div g2) * (y.n \div g1)]

Div(x, y) == DivNum[x, y]

\* x < y ; false as soon as one side is NaN
LtNum[x \in Num, y \in Num] ==
    IF IsNaN(x) \/ IsNaN(y) THEN FALSE
    ELSE IF x.d = 0 THEN x.n < 0 /\ y # x
    ELSE IF y.d = 0 THEN y.n > 0
    ELSE x.n * y.d < y.n * x.d

Lt(x, y) == LtNum[x, y]
LeNum[x \in Num, y \in Num] == ~IsNaN(x) /\ ~IsNaN(y) /\ (x = y \/ LtNum[x, y])

Le(x, y) == LeNum[x, y]
Gt(x, y) == LtNum[y, x]
Ge(x, y) == Le(y, x)

MinNum[x \in Num, y \in Num] ==
    IF IsNaN(x) \/ IsNaN(y) THEN NaN ELSE IF LtNum[y, x] THEN y ELSE x

MaxNum[x \in Num, y \in Num] ==
    IF IsNaN(x) \/ IsNaN(y) THEN NaN ELSE IF LtNum[x, y] THEN y ELSE x

MathMin(x, y) == MinNum[x, y]
MathMax(x, y) == MaxNum[x, y]
MathAbs(x) == [n |-> Abs(x.n), d |-> x.d]

\* F applied to the value of e: e is evaluated once, however often F uses it
With(e, F(_)) == CHOOSE r \in { F(v) : v \in {e} } : TRUE

\* a number used as a condition: 0 and NaN are falsy
Truthy(x) == ~IsNaN(x) /\ x.n # 0

----------------------------------------------------------------------------
(* RiskManager (src/src/types.ts) *)

\* one Position of the ledger, as handleSignal creates it
Position(marketId, outcome, size, averagePrice, currentPrice, pnl, pnlPercent) ==
    [marketId |-> marketId, outcome |-> outcome, size |-> size,
     averagePrice |-> averagePrice, currentPrice |-> currentPrice,
     pnl |-> pnl, pnlPercent |-> pnlPercent]

\* currentPositions.find(p => p.marketId === signal.marketId) is defined
HasPosition(currentPositions, marketId) ==
    \E i \in 1..Len(currentPositions) : currentPositions[i].marketId = marketId

\* canOpenPositionResult without the check for an existing position in the market
canOpenPositionResult_NoDedup(sig, currentPositions) ==
    IF Le(dailyPnL, Neg(config.maxDailyLossUsd))
    THEN [ret |-> FALSE, log |-> "Daily loss limit reached"]
    ELSE IF Len(currentPositions) >= config.maxPositions
    THEN [ret |-> FALSE, log |-> "Maximum positions limit reached"]
    ELSE IF Lt(sig.recommendedSize, I(1))
    THEN [ret |-> FALSE, log |-> "Position size too small"]
    ELSE [ret |-> TRUE, log |-> ""]

\* canOpenPositionResult with the position limit compared by > instead of >=
canOpenPositionResult_OffByOne(sig, currentPositions) ==
    IF Le(dailyPnL, Neg(config.maxDailyLossUsd))
    THEN [ret |-> FALSE, log |-> "Daily loss limit reached"]
    ELSE IF Len(currentPositions) > config.maxPositions
    THEN [ret |-> FALSE, log |-> "Maximum positions limit reached"]
    ELSE IF HasPosition(currentPositions, sig.marketId)
    THEN [ret |-> FALSE, log |-> "Already have a position in this market"]
    ELSE IF Lt(sig.recommendedSize, I(1))
    THEN [ret |-> FALSE, log |-> "Position size too small"]
    ELSE [ret |-> TRUE, log |-> ""]

\* canOpenPositionResult without the daily loss test
canOpenPositionResult_NoDailyLimit(sig, currentPositions) ==
    IF Len(currentPositions) >= config.maxPositions
    THEN [ret |-> FALSE, log |-> "Maximum positions limit reached"]
    ELSE IF HasPosition(currentPositions, sig.marketId)
    THEN [ret |-> FALSE, log |-> "Already have a position in this market"]
    ELSE IF Lt(sig.recommendedSize, I(1))
    THEN [ret |-> FALSE, log |-> "Position size too small"]
    ELSE [ret |-> TRUE, log |-> ""]

\* canOpenPosition: the value returned and the line logged before returning
canOpenPositionResult(sig, currentPositions) ==
    IF Le(dailyPnL, Neg(config.maxDailyLossUsd))
    THEN [ret |-> FALSE, log |-> "Daily loss limit reached"]
    ELSE IF Len(currentPositions) >= config.maxPositions
    THEN [ret |-> FALSE, log |-> "Maximum positions limit reached"]
    ELSE IF HasPosition(currentPositions, sig.marketId)
    THEN [ret |-> FALSE, log |-> "Already have a position in this market"]
    ELSE IF Lt(sig.recommendedSize, I(1))
    THEN [ret |-> FALSE, log |-> "Position size too small"]
    ELSE [ret |-> TRUE, log |-> ""]

canOpenPosition(sig, currentPositions) == canOpenPositionResult(sig, currentPositions).ret

\* ManyPositions with the 80% mark compared by > instead of >=
ManyPositions_Strict(currentPositions) ==
    Gt(I(Len(currentPositions)), Mul(I(config.maxPositions), R(8, 10)))

\* the diversification test of adjustPositionSize
ManyPositions(currentPositions) ==
    Ge(I(Len(currentPositions)), Mul(I(config.maxPositions), R(8, 10)))

\* updateDailyPnL storing the realized pnl instead of adding it
updateDailyPnL_Overwrite(pnl) == pnl

\* updateDailyPnL: the value of this.dailyPnL after this.dailyPnL += pnl
updateDailyPnL(pnl) == Add(dailyPnL, pnl)

\* the loss-capacity test of adjustPositionSize
CloseToDailyLimit ==
    Lt(Add(config.maxDailyLossUsd, dailyPnL), Mul(config.maxDailyLossUsd, R(1, 2)))

\* adjustPositionSize with the $1 floor applied before the two reductions
adjustPositionSize_FloorFirst(sig, currentPositions) ==
    LET s1 == MathMax(MathMin(sig.recommendedSize, config.maxPositionSizeUsd), I(1))
        s2 == IF CloseToDailyLimit THEN Mul(s1, R(1, 2)) ELSE s1
    IN  IF ManyPositions(currentPositions) THEN Mul(s2, R(7, 10)) ELSE s2

adjustPositionSize(sig, currentPositions) ==
    LET s1 == MathMin(sig.recommendedSize, config.maxPositionSizeUsd)
        s2 == IF CloseToDailyLimit THEN Mul(s1, R(1, 2)) ELSE s1
        s3 == IF ManyPositions(currentPositions) THEN Mul(s2, R(7, 10)) ELSE s2
    IN  MathMax(s3, I(1))

\* shouldClosePosition with a take-profit exit at +stopLossPercent
shouldClosePosition_TakeProfit(position) ==
    \/ Le(position.pnlPercent, Neg(config.stopLossPercent))
    \/ Ge(position.pnlPercent, config.stopLossPercent)
    \/ Le(Add(dailyPnL, position.pnl), Neg(config.maxDailyLossUsd))

\* shouldClosePosition without the stop-loss check
shouldClosePosition_DailyOnly(position) ==
    Le(Add(dailyPnL, position.pnl), Neg(config.maxDailyLossUsd))

\* shouldClosePosition with both limits compared by < instead of <=
shouldClosePosition_Strict(position) ==
    \/ Lt(position.pnlPercent, Neg(config.stopLossPercent))
    \/ Lt(Add(dailyPnL, position.pnl), Neg(config.maxDailyLossUsd))

shouldClosePosition(position) ==
    IF Le(position.pnlPercent, Neg(config.stopLossPercent)) THEN TRUE
    ELSE IF Le(Add(dailyPnL, position.pnl), Neg(config.maxDailyLossUsd)) THEN TRUE
    ELSE FALSE

----------------------------------------------------------------------------
(* ShortTermStrategy (src/unnamed/part_002) *)

Null == [null |-> TRUE]
Throws == [throws |-> TRUE]

\* loadConfig: MIN_WIN_PROBABILITY, 0.60 unless the environment sets it
MinWinProbability == R(60, 100)

\* StrategyConfig with both signal minimums at 0
StrategyConfig_NoMinimums ==
    [momentumPeriods |-> <<3, 5>>,
     momentumThreshold |-> R(1, 1000),
     volatilityPeriod |-> 10,
     highVolatilityMultiplier |-> R(15, 10),
     pricingDeviationThreshold |-> R(5, 100),
     volumeAnomalyThreshold |-> I(2),
     useTimeFactor |-> TRUE,
     earlyMarketWeight |-> R(3, 10),
     minConfidence |-> I(0),
     minSignalStrength |-> I(0)]

\* the configuration the TradingBot constructs the strategy with: the defaults
\* of the strategy, minConfidence taken from the trading configuration
StrategyConfig ==
    [momentumPeriods |-> <<3, 5>>,
     momentumThreshold |-> R(1, 1000),
     volatilityPeriod |-> 10,
     highVolatilityMultiplier |-> R(15, 10),
     pricingDeviationThreshold |-> R(5, 100),
     volumeAnomalyThreshold |-> I(2),
     useTimeFactor |-> TRUE,
     earlyMarketWeight |-> R(3, 10),
     minConfidence |-> IF Truthy(MinWinProbability)
                       THEN MinWinProbability ELSE R(60, 100),
     minSignalStrength |-> R(55, 100)]

\* a KLine; a missing volume reads as 0 wherever the strategy reads it
KLine(open, high, low, close, volume) ==
    [open |-> open, high |-> high, low |-> low, close |-> close, volume |-> volume]

MarketPrice(outcome, price, liquidity, volume24h) ==
    [outcome |-> outcome, price |-> price, liquidity |-> liquidity, volume24h |-> volume24h]

\* reduce((a, b) => a + b, 0)
SumOf[s \in Seq(Num)] ==
    IF s = << >> THEN I(0) ELSE AddNum[SumOf[SubSeq(s, 1, Len(s) - 1)], s[Len(s)]]

SumSeq(s) == SumOf[s]

\* array.slice(-k)
SliceLast(s, k) == IF Len(s) <= k THEN s ELSE SubSeq(s, Len(s) - k + 1, Len(s))

\* prices.find(p => p.outcome === outcome), Null when there is none
RECURSIVE FindPriceFrom(_, _, _)
FindPriceFrom(prices, outcome, i) ==
    IF i > Len(prices) THEN Null
    ELSE IF prices[i].outcome = outcome THEN prices[i]
    ELSE FindPriceFrom(prices, outcome, i + 1)

FindPrice(prices, outcome) == FindPriceFrom(prices, outcome, 1)

Clamp(x, lo, hi) == MathMax(lo, MathMin(hi, x))

\* the loop of calculateMomentum over config.momentumPeriods
RECURSIVE MomentumLoop(_, _, _)
MomentumLoop(closes, i, acc) ==
    IF i > Len(StrategyConfig.momentumPeriods) THEN acc
    ELSE LET period == StrategyConfig.momentumPeriods[i]
         IN  IF Len(closes) < period THEN MomentumLoop(closes, i + 1, acc)
             ELSE LET currentPrice == closes[Len(closes)]
                      pastPrice == closes[Len(closes) - period + 1]
                      change == Div(Sub(currentPrice, pastPrice), pastPrice)
                      weight == IF period = 3 THEN R(6, 10) ELSE R(4, 10)
                  IN  MomentumLoop(closes, i + 1,
                          [totalMomentum |-> Add(acc.totalMomentum, Mul(change, weight)),
                           weightSum |-> Add(acc.weightSum, weight)])

calculateMomentum(ks) ==
    IF Len(ks) < 5 THEN I(0)
    ELSE LET closes == [i \in 1..Len(ks) |-> ks[i].close]
             acc == MomentumLoop(closes, 1, [totalMomentum |-> I(0), weightSum |-> I(0)])
             avgMomentum == IF Gt(acc.weightSum, I(0))
                            THEN Div(acc.totalMomentum, acc.weightSum) ELSE I(0)
         IN  Clamp(Mul(avgMomentum, I(100)), I(-1), I(1))

\* calculateVolatility normalising by the multiplier alone: the true-range to
\* price ratio over highVolatilityMultiplier, clamped to [0, 1]
calculateVolatility_Ratio(ks) ==
    IF Len(ks) < StrategyConfig.volatilityPeriod THEN I(0)
    ELSE LET recent == SliceLast(ks, StrategyConfig.volatilityPeriod)
             trueRanges == [j \in 1..(Len(recent) - 1) |->
                 MathMax(MathMax(Sub(recent[j + 1].high, recent[j + 1].low),
                                 MathAbs(Sub(recent[j + 1].high, recent[j].close))),
                         MathAbs(Sub(recent[j + 1].low, recent[j].close)))]
             atr == Div(SumSeq(trueRanges), I(Len(trueRanges)))
             avgPrice == Div(SumSeq([j \in 1..Len(recent) |-> recent[j].close]), I(Len(recent)))
             volatility == Div(atr, avgPrice)
         IN  Clamp(Div(volatility, StrategyConfig.highVolatilityMultiplier), I(0), I(1))

calculateVolatility(ks) ==
    IF Len(ks) < StrategyConfig.volatilityPeriod THEN I(0)
    ELSE LET recent == SliceLast(ks, StrategyConfig.volatilityPeriod)
             trueRanges == [j \in 1..(Len(recent) - 1) |->
                 MathMax(MathMax(Sub(recent[j + 1].high, recent[j + 1].low),
                                 MathAbs(Sub(recent[j + 1].high, recent[j].close))),
                         MathAbs(Sub(recent[j + 1].low, recent[j].close)))]
             atr == Div(SumSeq(trueRanges), I(Len(trueRanges)))
             avgPrice == Div(SumSeq([j \in 1..Len(recent) |-> recent[j].close]), I(Len(recent)))
             volatility == Div(atr, avgPrice)
             avgVolatility == volatility
         IN  MathMin(I(1), Div(volatility,
                 Mul(avgVolatility, StrategyConfig.highVolatilityMultiplier)))

\* calculatePricingDeviation measuring the trend up to the Chainlink price
\* instead of the last close
calculatePricingDeviation_FromReference(currentPrice, ks, polymarketYesPrice) ==
    IF Len(ks) < 5 THEN I(0)
    ELSE LET recent == SliceLast(ks, 5)
             first == recent[1].close
             priceChange == Div(Sub(currentPrice, first), first)
             estimatedActualProbability == Add(R(1, 2), Mul(priceChange, I(10)))
             deviation == Sub(polymarketYesPrice, estimatedActualProbability)
         IN  Clamp(Mul(deviation, I(2)), I(-1), I(1))

\* currentPrice, the Chainlink price, is not read by the computation
calculatePricingDeviation(currentPrice, ks, polymarketYesPrice) ==
    IF Len(ks) < 5 THEN I(0)
    ELSE LET recent == SliceLast(ks, 5)
             first == recent[1].close
             last == recent[Len(recent)].close
             priceChange == Div(Sub(last, first), first)
             estimatedActualProbability == Add(R(1, 2), Mul(priceChange, I(10)))
             deviation == Sub(polymarketYesPrice, estimatedActualProbability)
         IN  Clamp(Mul(deviation, I(2)), I(-1), I(1))

calculateVolumeAnomaly(ks, currentVolume24h) ==
    IF Len(ks) < 5 THEN I(0)
    ELSE LET recent == SliceLast(ks, 10)
             volumes == SelectSeq([j \in 1..Len(recent) |->
                                      IF Truthy(recent[j].volume) THEN recent[j].volume ELSE I(0)],
                                  LAMBDA v : Gt(v, I(0)))
         IN  IF Len(volumes) = 0 THEN I(0)
             ELSE LET avgVolume == Div(SumSeq(volumes), I(Len(volumes)))
                  IN  IF avgVolume = I(0) THEN I(0)
                      ELSE LET volumeRatio == Div(currentVolume24h,
                                                  Mul(Mul(avgVolume, I(24)), I(4)))
                           IN  MathMin(I(1), Div(volumeRatio,
                                                 StrategyConfig.volumeAnomalyThreshold))

\* now is the value Date.now() returns, in milliseconds
calculateTimeFactor(ks, marketStartTime, now) ==
    IF Len(ks) < 3 THEN I(0)
    ELSE LET timeSinceStart == Div(Sub(now, marketStartTime), I(1000 * 60))
         IN  IF Lt(timeSinceStart, I(5))
             THEN LET recent == SliceLast(ks, 3)
                      trend == Div(Sub(recent[3].close, recent[1].close), recent[1].close)
                  IN  Mul(Clamp(Mul(trend, I(100)), I(-1), I(1)),
                          StrategyConfig.earlyMarketWeight)
             ELSE I(0)

Factors(momentum, volatility, pricingDeviation, volumeAnomaly, timeFactor) ==
    [momentum |-> momentum, volatility |-> volatility,
     pricingDeviation |-> pricingDeviation, volumeAnomaly |-> volumeAnomaly,
     timeFactor |-> timeFactor]

calculateFactorAgreement(factors, direction) ==
    LET expectedSign == IF direction = "YES" THEN 1 ELSE -1
        mOn == Gt(MathAbs(factors.momentum), R(1, 1000))
        mSign == IF Gt(factors.momentum, I(0)) THEN 1 ELSE -1
        pOn == Gt(MathAbs(factors.pricingDeviation), R(5, 100))
        pSign == IF Lt(factors.pricingDeviation, I(0)) THEN 1 ELSE -1
        tOn == Gt(MathAbs(factors.timeFactor), R(1, 10))
        tSign == IF Gt(factors.timeFactor, I(0)) THEN 1 ELSE -1
        a1 == IF mOn /\ mSign = expectedSign THEN R(3, 10) ELSE I(0)
        a2 == IF pOn /\ pSign = expectedSign THEN R(3, 10) ELSE I(0)
        a3 == IF tOn /\ tSign = expectedSign THEN R(2, 10) ELSE I(0)
        agreement == Add(Add(a1, a2), a3)
        count == (IF mOn THEN 1 ELSE 0) + (IF pOn THEN 1 ELSE 0) + (IF tOn THEN 1 ELSE 0)
    IN  IF count > 0 THEN Div(agreement, I(count)) ELSE I(0)

\* WeightedScore without the volatility boost of the momentum term
WeightedScore_NoVolatilityBoost(factors) ==
    LET momentumOn == Gt(MathAbs(factors.momentum), StrategyConfig.momentumThreshold)
        momentumScore == IF momentumOn THEN factors.momentum ELSE I(0)
        pricingOn == Gt(MathAbs(factors.pricingDeviation),
                        StrategyConfig.pricingDeviationThreshold)
        pricingScore == IF pricingOn THEN Neg(factors.pricingDeviation) ELSE I(0)
        volumeBoost == IF Gt(factors.volumeAnomaly, R(1, 2)) THEN R(11, 10) ELSE I(1)
    IN  Add(Add(Add(Mul(momentumScore, R(40, 100)),
                    Mul(pricingScore, R(25, 100))),
                Mul(factors.timeFactor, R(10, 100))),
            Mul(Sub(Mul(momentumScore, volumeBoost), momentumScore), R(10, 100)))

\* WeightedScore with a volatility boost of 1.5 on the momentum term
WeightedScore_BoostOneAndHalf(factors) ==
    LET momentumOn == Gt(MathAbs(factors.momentum), StrategyConfig.momentumThreshold)
        momentumScore == IF momentumOn THEN factors.momentum ELSE I(0)
        volatilityBoost == IF Gt(factors.volatility, R(1, 2)) THEN R(15, 10) ELSE I(1)
        pricingOn == Gt(MathAbs(factors.pricingDeviation),
                        StrategyConfig.pricingDeviationThreshold)
        pricingScore == IF pricingOn THEN Neg(factors.pricingDeviation) ELSE I(0)
        volumeBoost == IF Gt(factors.volumeAnomaly, R(1, 2)) THEN R(11, 10) ELSE I(1)
    IN  Add(Add(Add(Mul(Mul(momentumScore, R(40, 100)), volatilityBoost),
                    Mul(pricingScore, R(25, 100))),
                Mul(factors.timeFactor, R(10, 100))),
            Mul(Sub(Mul(momentumScore, volumeBoost), momentumScore), R(10, 100)))

\* combineFactors: the weighted sum of the factor scores
WeightedScore(factors) ==
    LET momentumOn == Gt(MathAbs(factors.momentum), StrategyConfig.momentumThreshold)
        momentumScore == IF momentumOn THEN factors.momentum ELSE I(0)
        volatilityBoost == IF Gt(factors.volatility, R(1, 2)) THEN R(12, 10) ELSE I(1)
        pricingOn == Gt(MathAbs(factors.pricingDeviation),
                        StrategyConfig.pricingDeviationThreshold)
        pricingScore == IF pricingOn THEN Neg(factors.pricingDeviation) ELSE I(0)
        volumeBoost == IF Gt(factors.volumeAnomaly, R(1, 2)) THEN R(11, 10) ELSE I(1)
        timeScore == factors.timeFactor
    IN  Add(Add(Add(Mul(Mul(momentumScore, R(40, 100)), volatilityBoost),
                    Mul(pricingScore, R(25, 100))),
                Mul(timeScore, R(10, 100))),
            Mul(Sub(Mul(momentumScore, volumeBoost), momentumScore), R(10, 100)))

\* combineFactors from the weighted sum to the threshold check: direction,
\* strength, confidence and the reasons pushed (each reduced to its label)
Scored(factors, combinedScore) ==
    LET momentumOn == Gt(MathAbs(factors.momentum), StrategyConfig.momentumThreshold)
        pricingOn == Gt(MathAbs(factors.pricingDeviation),
                        StrategyConfig.pricingDeviationThreshold)
        volumeOn == Gt(factors.volumeAnomaly, R(1, 2))
        timeOn == Gt(MathAbs(factors.timeFactor), R(1, 10))
        direction == IF Gt(combinedScore, I(0)) THEN "YES" ELSE "NO"
        signalStrength == MathMin(I(1), MathAbs(combinedScore))
        c1 == Add(signalStrength,
                  Mul(calculateFactorAgreement(factors, direction), R(2, 10)))
        bonusOn == Gt(factors.volatility, R(6, 10)) /\ Gt(MathAbs(factors.momentum), R(2, 1000))
        c2 == IF bonusOn THEN Add(c1, R(1, 10)) ELSE c1
        c3 == IF Gt(MathAbs(factors.pricingDeviation), R(1, 10)) THEN Add(c2, R(1, 10)) ELSE c2
        reasons == (IF momentumOn THEN <<"momentum">> ELSE << >>)
                   \o (IF pricingOn THEN <<"pricingDeviation">> ELSE << >>)
                   \o (IF volumeOn THEN <<"volumeAnomaly">> ELSE << >>)
                   \o (IF timeOn THEN <<"timeFactor">> ELSE << >>)
                   \o (IF bonusOn THEN <<"volatility+momentum">> ELSE << >>)
    IN  [combinedScore |-> combinedScore, direction |-> direction,
         confidence |-> MathMin(I(1), c3), signalStrength |-> signalStrength,
         factors |-> factors, reasons |-> reasons]

\* combineFactors up to the threshold check
CombinedScore(factors) ==
    With(factors, LAMBDA f : With(WeightedScore(f), LAMBDA score : Scored(f, score)))

\* combineFactors: a StrategySignal, or Null below the minimal strength
combineFactors(factors) ==
    With(CombinedScore(factors), LAMBDA c :
        IF Lt(c.signalStrength, StrategyConfig.minSignalStrength) THEN Null
        ELSE [direction |-> c.direction, confidence |-> c.confidence,
              signalStrength |-> c.signalStrength, factors |-> c.factors,
              reasons |-> c.reasons])

\* calculatePositionSize without the cap at 5% of the liquidity
calculatePositionSize_NoLiquidityCap(probability, liquidity, confidence, signalStrength) ==
    LET probabilityMultiplier == IF Gt(probability, R(7, 10)) THEN R(8, 10) ELSE I(1)
        size == Mul(Mul(Mul(I(100), confidence), signalStrength), probabilityMultiplier)
    IN  MathMax(I(50), MathMin(size, I(500)))

calculatePositionSize(probability, liquidity, confidence, signalStrength) ==
    LET baseSize == I(100)
        probabilityMultiplier == IF Gt(probability, R(7, 10)) THEN R(8, 10) ELSE I(1)
        size == Mul(Mul(Mul(baseSize, confidence), signalStrength), probabilityMultiplier)
        maxSize == MathMin(size, Mul(liquidity, R(5, 100)))
    IN  MathMax(I(50), MathMin(maxSize, I(500)))

\* AnalyzeFactors computing the pricing deviation from the reference price
\* whether or not there is one
AnalyzeFactors_NoFallback(ks, yesPrice, chainlinkPrice, marketStartTime, now) ==
    Factors(calculateMomentum(ks),
            calculateVolatility(ks),
            IF chainlinkPrice \notin {Null, Throws}
            THEN calculatePricingDeviation(chainlinkPrice.price, ks, yesPrice.price)
            ELSE NaN,
            calculateVolumeAnomaly(ks, yesPrice.volume24h),
            IF marketStartTime # Null /\ Truthy(marketStartTime)
            THEN calculateTimeFactor(ks, marketStartTime, now)
            ELSE I(0))

\* the five factors as analyzeMarket computes them; chainlinkPrice is the
\* outcome of ChainlinkClient.getPrice (a price record, Null or Throws),
\* marketStartTime a number or Null
AnalyzeFactors(ks, yesPrice, chainlinkPrice, marketStartTime, now) ==
    Factors(calculateMomentum(ks),
            calculateVolatility(ks),
            IF chainlinkPrice \notin {Null, Throws}
            THEN calculatePricingDeviation(chainlinkPrice.price, ks, yesPrice.price)
            ELSE I(0),
            calculateVolumeAnomaly(ks, yesPrice.volume24h),
            IF marketStartTime # Null /\ Truthy(marketStartTime)
            THEN calculateTimeFactor(ks, marketStartTime, now)
            ELSE I(0))

\* analyzeMarket: the TradeSignal returned, or Null
analyzeMarket(marketId, prices, chainlinkPrice, ks, marketStartTime, now) ==
    LET yesPrice == FindPrice(prices, "YES")
        noPrice == FindPrice(prices, "NO")
    IN  IF yesPrice = Null \/ noPrice = Null THEN Null
        ELSE IF Len(ks) < 10 THEN Null
        ELSE With(combineFactors(
                      AnalyzeFactors(ks, yesPrice, chainlinkPrice, marketStartTime, now)),
                  LAMBDA sig :
                 IF sig = Null THEN Null
                 ELSE IF Lt(sig.confidence, StrategyConfig.minConfidence) THEN Null
                 ELSE IF Lt(sig.signalStrength, StrategyConfig.minSignalStrength) THEN Null
                 ELSE LET chosen == IF sig.direction = "YES" THEN yesPrice ELSE noPrice
                      IN  [marketId |-> marketId,
                           outcome |-> sig.direction,
                           probability |-> chosen.price,
                           confidence |-> sig.confidence,
                           signalStrength |-> sig.signalStrength,
                           recommendedSize |-> calculatePositionSize(chosen.price,
                               chosen.liquidity, sig.confidence, sig.signalStrength),
                           reason |-> sig.reasons])

----------------------------------------------------------------------------
(* A caller of the RiskManager: every method applied to bounded inputs *)

MaxMaxPositions == 6

TradingConfig(maxPositions, maxPositionSizeUsd) ==
    [minWinProbability |-> MinWinProbability,
     maxPositionSizeUsd |-> maxPositionSizeUsd,
     minMarketLiquidityUsd |-> I(1000),
     maxDailyLossUsd |-> I(100),
     maxPositions |-> maxPositions,
     stopLossPercent |-> I(10)]

RiskConfigs ==
    { TradingConfig(mp, mps) : mp \in 1..MaxMaxPositions, mps \in {I(100), R(1, 2)} }

\* around -maxDailyLossUsd and around half of it
DailyPnLInputs == { I(-120), I(-100), I(-60), I(-50), I(0), I(30) }

FreshPosition(marketId) ==
    Position(marketId, "YES", I(50), R(1, 2), R(1, 2), I(0), I(0))

\* ledgers holding the markets 1..k
LedgerInputs == { [i \in 1..k |-> FreshPosition(i)] : k \in 0..MaxMaxPositions }

TradeSignal(marketId, outcome, probability, confidence, signalStrength, recommendedSize) ==
    [marketId |-> marketId, outcome |-> outcome, probability |-> probability,
     confidence |-> confidence, signalStrength |-> signalStrength,
     recommendedSize |-> recommendedSize]

NoSignal == [marketId |-> 0]

\* market 1 is held by every non-empty input ledger, market MaxMaxPositions + 1 by none
SignalInputs ==
    { TradeSignal(m, "YES", R(1, 2), cs[1], cs[2], size) :
        m \in {1, MaxMaxPositions + 1},
        cs \in { <<R(6, 10), R(55, 100)>>, <<I(1), I(1)>> },
        size \in { I(0), R(1, 2), I(1), I(80), I(150) } }

\* the positions shouldClosePosition is asked about: <<pnl, pnlPercent>>
ClosePnls ==
    { <<I(-6), I(-11)>>, <<I(-5), I(-10)>>, <<R(-9, 2), I(-9)>>, <<I(0), I(0)>>,
      <<I(-50), I(-5)>>, <<I(-45), R(-9, 2)>>, <<I(20), I(2)>>, <<NaN, NaN>> }

PositionInputs ==
    { Position(1, "YES", I(50), R(1, 2), R(1, 2), pp[1], pp[2]) : pp \in ClosePnls }

NoCall == [op |-> "none"]

NoKlines == << >>

NoOrder == [side |-> "none"]

\* the TradingBot as constructed, start() not called
LoopIdle ==
    /\ isRunning = FALSE
    /\ pc = "init"
    /\ activeMarkets = << >>
    /\ exitIdx = 0
    /\ cycles = 0
    /\ submitted = NoOrder
    /\ caught = FALSE

InitRisk ==
    /\ config \in RiskConfigs
    /\ dailyPnL \in DailyPnLInputs
    /\ positions \in LedgerInputs
    /\ signal \in SignalInputs
    /\ rmCall = NoCall
    /\ klines = NoKlines
    /\ stCall = NoCall
    /\ LoopIdle

CallCanOpenPosition ==
    /\ rmCall.op = "none"
    /\ rmCall' = [op |-> "canOpenPosition",
                  ret |-> canOpenPosition(signal, positions),
                  log |-> canOpenPositionResult(signal, positions).log]
    /\ UNCHANGED <<config, dailyPnL, positions, signal, stratVars, loopVars>>

CallAdjustPositionSize ==
    /\ rmCall.op = "none"
    /\ rmCall' = [op |-> "adjustPositionSize",
                  ret |-> adjustPositionSize(signal, positions)]
    /\ UNCHANGED <<config, dailyPnL, positions, signal, stratVars, loopVars>>

\* shouldClosePosition written with += where it adds the position's pnl to
\* the daily P&L
CallShouldClosePosition_Accumulating ==
    /\ rmCall.op = "none"
    /\ \E p \in PositionInputs :
          /\ rmCall' = [op |-> "shouldClosePosition", arg |-> p,
                        ret |-> shouldClosePosition(p)]
          /\ dailyPnL' = Add(dailyPnL, p.pnl)
    /\ UNCHANGED <<config, positions, signal, stratVars, loopVars>>

CallShouldClosePosition ==
    /\ rmCall.op = "none"
    /\ \E p \in PositionInputs :
          rmCall' = [op |-> "shouldClosePosition", arg |-> p,
                     ret |-> shouldClosePosition(p)]
    /\ UNCHANGED <<config, dailyPnL, positions, signal, stratVars, loopVars>>

NextRisk ==
    \/ CallCanOpenPosition
    \/ CallAdjustPositionSize
    \/ CallShouldClosePosition

SpecRisk == InitRisk /\ [][NextRisk]_vars

----------------------------------------------------------------------------
(* Claims about the RiskManager, checked under SpecRisk *)

\* C2: canOpenPosition returns false whenever the current positions contain a
\* position with the signal's market id, whatever the signal's confidence,
\* strength and recommended size and whatever the daily PnL.
C2_DedupBlocksEntry ==
    (rmCall.op = "canOpenPosition" /\ HasPosition(positions, signal.marketId))
        => rmCall.ret = FALSE

\* C2 witness: the existing position is the only reason to refuse
C2_Witness ==
    /\ rmCall.op = "canOpenPosition"
    /\ HasPosition(positions, signal.marketId)
    /\ Gt(dailyPnL, Neg(config.maxDailyLossUsd))
    /\ Len(positions) < config.maxPositions
    /\ Ge(signal.recommendedSize, I(1))
    /\ signal.confidence = I(1)
    /\ rmCall.ret = FALSE

\* C4: canOpenPosition returns true exactly when the daily PnL is above
\* -maxDailyLossUsd, fewer than maxPositions positions are open, none is open
\* for the signal's market and the recommended size is at least 1; otherwise
\* it returns false and logs the first failing condition in that order.
C4_CanOpenIffAllFour ==
    rmCall.op = "canOpenPosition" =>
        LET c1 == Gt(dailyPnL, Neg(config.maxDailyLossUsd))
            c2 == Len(positions) < config.maxPositions
            c3 == \A i \in 1..Len(positions) : positions[i].marketId # signal.marketId
            c4 == Ge(signal.recommendedSize, I(1))
        IN  /\ rmCall.ret \in BOOLEAN
            /\ rmCall.ret = (c1 /\ c2 /\ c3 /\ c4)
            /\ rmCall.log = IF ~c1 THEN "Daily loss limit reached"
                            ELSE IF ~c2 THEN "Maximum positions limit reached"
                            ELSE IF ~c3 THEN "Already have a position in this market"
                            ELSE IF ~c4 THEN "Position size too small"
                            ELSE ""

\* C4 witness: the ledger is exactly full, the market is held and the size is
\* too small, and the position limit is what is reported
C4_Witness ==
    /\ rmCall.op = "canOpenPosition"
    /\ Gt(dailyPnL, Neg(config.maxDailyLossUsd))
    /\ Len(positions) = config.maxPositions
    /\ HasPosition(positions, signal.marketId)
    /\ Lt(signal.recommendedSize, I(1))
    /\ rmCall.ret = FALSE
    /\ rmCall.log = "Maximum positions limit reached"

\* C5: shouldClosePosition returns true exactly when pnlPercent <=
\* -stopLossPercent or dailyPnL + pnl <= -maxDailyLossUsd; in particular for
\* a position with pnlPercent = -stopLossPercent - 1.
C5_ShouldCloseIff ==
    rmCall.op = "shouldClosePosition" =>
        LET p == rmCall.arg
            stop == Le(p.pnlPercent, Neg(config.stopLossPercent))
            breach == Le(Add(dailyPnL, p.pnl), Neg(config.maxDailyLossUsd))
        IN  /\ rmCall.ret = (stop \/ breach)
            /\ (p.pnlPercent = Sub(Neg(config.stopLossPercent), I(1)) => rmCall.ret = TRUE)

\* C5 witness: a position exactly at the stop loss, far from the daily limit
C5_Witness ==
    /\ rmCall.op = "shouldClosePosition"
    /\ rmCall.arg.pnlPercent = Neg(config.stopLossPercent)
    /\ Gt(Add(dailyPnL, rmCall.arg.pnl), Neg(config.maxDailyLossUsd))
    /\ rmCall.ret = TRUE

\* C6: adjustPositionSize returns max(1, s3) with s1 = min(recommendedSize,
\* maxPositionSizeUsd), s2 = s1/2 if maxDailyLossUsd + dailyPnL is below half of
\* maxDailyLossUsd else s1, s3 = 0.7*s2 if the open position count is at
\* least 0.8*maxPositions else s2; the result is never below 1 and never
\* above max(1, maxPositionSizeUsd).
C6_AdjustFormula ==
    rmCall.op = "adjustPositionSize" =>
        LET s1 == IF Lt(config.maxPositionSizeUsd, signal.recommendedSize)
                  THEN config.maxPositionSizeUsd ELSE signal.recommendedSize
            s2 == IF Lt(Add(config.maxDailyLossUsd, dailyPnL),
                        Div(config.maxDailyLossUsd, I(2)))
                  THEN Div(s1, I(2)) ELSE s1
            s3 == IF 10 * Len(positions) >= 8 * config.maxPositions
                  THEN Div(Mul(s2, I(7)), I(10)) ELSE s2
            cap == IF Lt(config.maxPositionSizeUsd, I(1))
                   THEN I(1) ELSE config.maxPositionSizeUsd
        IN  /\ rmCall.ret = (IF Lt(s3, I(1)) THEN I(1) ELSE s3)
            /\ Ge(rmCall.ret, I(1))
            /\ Le(rmCall.ret, cap)

\* C6 witness: a size that is capped, halved and derated and stays above the floor
C6_Witness ==
    /\ rmCall.op = "adjustPositionSize"
    /\ signal.recommendedSize = I(150)
    /\ config.maxPositionSizeUsd = I(100)
    /\ CloseToDailyLimit
    /\ ManyPositions(positions)
    /\ rmCall.ret = I(35)

\* the size adjustPositionSize has reached before the diversification test
PreDerateSize ==
    LET s1 == MathMin(signal.recommendedSize, config.maxPositionSizeUsd)
    IN  IF CloseToDailyLimit THEN Mul(s1, R(1, 2)) ELSE s1

\* C7 as claimed: for every maxPositions >= 1, with maxPositions - 1 open
\* positions adjustPositionSize applies the 0.7 diversification derate.
C7_Original ==
    (rmCall.op = "adjustPositionSize" /\ Len(positions) = config.maxPositions - 1)
        => rmCall.ret = MathMax(Mul(PreDerateSize, R(7, 10)), I(1))

\* C7 amended: for every maxPositions >= 5, with maxPositions - 1 open
\* positions adjustPositionSize applies the 0.7 diversification derate.
C7_DerateFromFive ==
    (/\ rmCall.op = "adjustPositionSize"
     /\ config.maxPositions >= 5
     /\ Len(positions) = config.maxPositions - 1)
        => rmCall.ret = MathMax(Mul(PreDerateSize, R(7, 10)), I(1))

\* C7 witness: five slots, four taken, and the derated size differs from the
\* size before the derate
C7_Witness ==
    /\ rmCall.op = "adjustPositionSize"
    /\ config.maxPositions = 5
    /\ Len(positions) = 4
    /\ PreDerateSize = I(80)
    /\ rmCall.ret = I(56)

----------------------------------------------------------------------------
(* A caller of the ShortTermStrategy: the DataCollector's direct factor
   calls, analyzeMarket and calculatePositionSize applied to bounded inputs *)

MaxBars == 11

BarShapes ==
    { KLine(I(100), I(100), I(100), I(100), I(0)),      \* flat, no volume
      KLine(I(100), I(103), I(99), I(102), I(10)),      \* rising
      KLine(I(100), I(101), I(95), I(96), I(10)),       \* falling
      KLine(I(0), I(0), I(0), I(0), I(0)),              \* zero-priced
      KLine(I(1000), I(1200), I(900), I(1000), I(4)) }  \* ten times the usual price

BaseShapes ==
    { KLine(I(100), I(100), I(100), I(100), I(0)), KLine(I(0), I(0), I(0), I(0), I(0)) }

BarCounts == { 4, 9, 10, MaxBars }

\* histories of n bars: one base bar repeated, with the bars read by the
\* trend computations (the last, the third last and the fifth last) varied
KlineInputs ==
    { [i \in 1..n |-> IF i = n THEN b1 ELSE IF i = n - 2 THEN b3
                      ELSE IF i = n - 4 THEN b5 ELSE base] :
        n \in BarCounts, base \in BaseShapes,
        b1 \in BarShapes, b3 \in BarShapes, b5 \in BarShapes }

\* analyzeMarket asks get15mKlines for 50 bars
KlineLimit == 50

\* full histories without any price change, with and without volume
FlatHistories ==
    { [i \in 1..KlineLimit |-> KLine(I(px), I(px), I(px), I(px), I(v))] :
        px \in {100, 1000}, v \in {0, 10} }

\* the MarketPrice[] getMarketPrices returns
QuoteInputs ==
    { << MarketPrice("YES", R(3, 10), I(1000), I(10)), MarketPrice("NO", R(7, 10), I(1000), I(10)) >>,
      << MarketPrice("YES", R(9, 10), I(200), I(0)), MarketPrice("NO", R(1, 10), I(200), I(0)) >>,
      << MarketPrice("YES", R(1, 2), I(10000), I(4000)), MarketPrice("NO", R(1, 2), I(10000), I(4000)) >>,
      << MarketPrice("YES", R(1, 2), I(1000), I(10)) >>,
      << MarketPrice("NO", R(1, 2), I(1000), I(10)) >>,
      << >> }

ChainlinkInputs == { Null, Throws, [price |-> I(100)] }

\* Date.now() and the market start times: none, 4 minutes ago, 9 minutes ago
NowMs == I(600000)
StartTimeInputs == { Null, I(360000), I(60000) }

DefaultConfig == TradingConfig(5, I(100))

InitStrategy ==
    /\ config = DefaultConfig
    /\ dailyPnL = I(0)
    /\ positions = << >>
    /\ signal = NoSignal
    /\ rmCall = NoCall
    /\ klines \in KlineInputs \cup FlatHistories
    /\ stCall = NoCall
    /\ LoopIdle

\* DataCollector.analyzeMarket: the five factors computed one by one
CallFactors ==
    /\ stCall.op = "none"
    /\ \E prices \in QuoteInputs, cl \in ChainlinkInputs, start \in StartTimeInputs :
          LET yesPrice == FindPrice(prices, "YES")
              noPrice == FindPrice(prices, "NO")
              chainlinkPrice == IF cl \in {Null, Throws} THEN Null
                                ELSE IF Truthy(cl.price) THEN cl.price ELSE Null
          IN  /\ yesPrice # Null /\ noPrice # Null
              /\ stCall' = [op |-> "factors", prices |-> prices, chainlinkPrice |-> cl,
                            marketStartTime |-> start, now |-> NowMs,
                            momentum |-> calculateMomentum(klines),
                            volatility |-> calculateVolatility(klines),
                            pricingDeviation |->
                                IF chainlinkPrice # Null
                                THEN calculatePricingDeviation(chainlinkPrice, klines,
                                                               yesPrice.price)
                                ELSE Null,
                            volumeAnomaly |-> calculateVolumeAnomaly(klines, yesPrice.volume24h),
                            timeFactor |->
                                IF start # Null /\ Truthy(start)
                                THEN calculateTimeFactor(klines, start, NowMs)
                                ELSE Null]
    /\ UNCHANGED <<riskVars, klines, loopVars>>

CallAnalyzeMarket ==
    /\ stCall.op = "none"
    /\ \E prices \in QuoteInputs, cl \in ChainlinkInputs, start \in StartTimeInputs :
          stCall' = [op |-> "analyzeMarket", prices |-> prices, chainlinkPrice |-> cl,
                     marketStartTime |-> start, now |-> NowMs,
                     ret |-> analyzeMarket(1, prices, cl, klines, start, NowMs)]
    /\ UNCHANGED <<riskVars, klines, loopVars>>

ProbabilityInputs == { I(0), R(1, 2), R(7, 10), R(8, 10), I(1) }
LiquidityInputs == { I(0), I(500), I(1000), I(1400), I(2000), I(20000) }
UnitInputs == { I(0), R(55, 100), R(6, 10), I(1) }

CallCalculatePositionSize ==
    /\ stCall.op = "none"
    /\ \E probability \in ProbabilityInputs, liquidity \in LiquidityInputs,
          confidence \in UnitInputs, signalStrength \in UnitInputs :
          stCall' = [op |-> "calculatePositionSize", probability |-> probability,
                     liquidity |-> liquidity, confidence |-> confidence,
                     signalStrength |-> signalStrength,
                     ret |-> calculatePositionSize(probability, liquidity, confidence,
                                                   signalStrength)]
    /\ UNCHANGED <<riskVars, klines, loopVars>>

NextStrategy ==
    \/ CallFactors
    \/ CallAnalyzeMarket

SpecStrategy == InitStrategy /\ [][NextStrategy]_vars

\* the position sizer alone, before any history is fetched
InitSizer ==
    /\ config = DefaultConfig
    /\ dailyPnL = I(0)
    /\ positions = << >>
    /\ signal = NoSignal
    /\ rmCall = NoCall
    /\ klines = NoKlines
    /\ stCall = NoCall
    /\ LoopIdle

NextSizer == CallCalculatePositionSize

SpecSizer == InitSizer /\ [][NextSizer]_vars

----------------------------------------------------------------------------
(* Claims about the ShortTermStrategy *)

InRange(x, lo, hi) == Le(lo, x) /\ Le(x, hi)

\* C8 as claimed: for every probability in [0,1], liquidity >= 0, confidence
\* and strength in [0,1], calculatePositionSize returns a size with
\* 50 <= size <= 500 and size <= 0.05 * liquidity.
C8_Original ==
    stCall.op = "calculatePositionSize" =>
        /\ InRange(stCall.ret, I(50), I(500))
        /\ Le(stCall.ret, Mul(R(5, 100), stCall.liquidity))

\* C8 amended: the size returned satisfies 50 <= size <= 500 and
\* size <= max(50, 0.05 * liquidity): the cap at 5% of the liquidity holds
\* whenever it is not below the floor of 50, that is for liquidity >= 1000.
C8_SizeBounds ==
    stCall.op = "calculatePositionSize" =>
        /\ InRange(stCall.ret, I(50), I(500))
        /\ Le(stCall.ret, MathMax(I(50), Mul(R(5, 100), stCall.liquidity)))
        /\ (Ge(stCall.liquidity, I(1000))
               => Le(stCall.ret, Mul(R(5, 100), stCall.liquidity)))

\* C8 witness: the 5% cap decides the size
C8_Witness ==
    /\ stCall.op = "calculatePositionSize"
    /\ stCall.liquidity = I(1400)
    /\ stCall.confidence = I(1)
    /\ stCall.signalStrength = I(1)
    /\ stCall.ret = I(70)

\* the inputs of the last analyzeMarket call
CallYes == FindPrice(stCall.prices, "YES")
CallNo == FindPrice(stCall.prices, "NO")
CallCombined ==
    CombinedScore(AnalyzeFactors(klines, CallYes, stCall.chainlinkPrice,
                                 stCall.marketStartTime, stCall.now))

\* C9: with both quotes and at least 10 bars analyzeMarket emits a signal
\* exactly when the combined strength >= minSignalStrength and the combined
\* confidence >= minConfidence; every emitted signal has confidence and
\* strength in [0,1]; with a quote missing or fewer than 10 bars no signal
\* is emitted.
C9_SignalIffThresholds ==
    stCall.op = "analyzeMarket" =>
        /\ (CallYes # Null /\ CallNo # Null /\ Len(klines) >= 10) =>
               ((stCall.ret # Null) <=>
                   (/\ Ge(CallCombined.signalStrength, StrategyConfig.minSignalStrength)
                    /\ Ge(CallCombined.confidence, StrategyConfig.minConfidence)))
        /\ (stCall.ret # Null) =>
               (/\ InRange(stCall.ret.confidence, I(0), I(1))
                /\ InRange(stCall.ret.signalStrength, I(0), I(1)))
        /\ (CallYes = Null \/ CallNo = Null \/ Len(klines) < 10) => stCall.ret = Null

\* a factor the DataCollector did not compute is recorded as Null
FactorIn(x, lo, hi) == x = Null \/ InRange(x, lo, hi)

\* C10: for every bar sequence, quote probability and 24h volume >= 0 each
\* computed factor lies in its declared bound (momentum, pricingDeviation and
\* timeFactor in [-1,1], volatility and volumeAnomaly in [0,1]) and none is
\* the undefined result of a division by zero.
C10_FactorsInBounds ==
    stCall.op = "factors" =>
        /\ FactorIn(stCall.momentum, I(-1), I(1))
        /\ FactorIn(stCall.volatility, I(0), I(1))
        /\ FactorIn(stCall.pricingDeviation, I(-1), I(1))
        /\ FactorIn(stCall.volumeAnomaly, I(0), I(1))
        /\ FactorIn(stCall.timeFactor, I(-1), I(1))

----------------------------------------------------------------------------
(* TradingBot (src/src/signing.ts): start, tick, updatePositions,
   checkExitSignals, handleSignal, stop *)

NumMarkets == 2
MaxCycles == 2

\* what an awaited call of a client comes back with: a value, or an error thrown
Answer(v) == [ok |-> TRUE, value |-> v]
Failure == [ok |-> FALSE]
Answers(S) == { Answer(v) : v \in S } \cup { Failure }

Markets == 1..NumMarkets

\* Map.set: the value of an existing key is replaced in place, a new key is
\* appended
MapSet_Append(ledger, position) == Append(ledger, position)

MapSet(ledger, position) ==
    IF HasPosition(ledger, position.marketId)
    THEN [i \in 1..Len(ledger) |->
             IF ledger[i].marketId = position.marketId THEN position ELSE ledger[i]]
    ELSE Append(ledger, position)

\* Map.delete, if it left the entry in the map
MapDelete_Kept(ledger, marketId) == ledger

\* Map.delete
MapDelete(ledger, marketId) == SelectSeq(ledger, LAMBDA p : p.marketId # marketId)

\* for (const position of positions) this.positions.set(position.marketId, position)
RECURSIVE SetAll(_, _)
SetAll(ledger, list) ==
    IF list = << >> THEN ledger ELSE SetAll(MapSet(ledger, Head(list)), Tail(list))

\* what PolymarketClient.getPositions returns: nothing (no endpoint answers),
\* or the positions parsePositions builds
ApiPosition(marketId, outcome) ==
    Position(marketId, outcome, I(250), R(1, 2), R(1, 2), I(0), I(0))

ApiPositionInputs ==
    { << >>, << ApiPosition(1, "YES") >>, << ApiPosition(1, "YES"), ApiPosition(1, "NO") >> }

\* the lists activeMarkets.slice(0, 10) can be: getCryptoMarkets returns each
\* market id once, and tick keeps the active, liquid, well-named ones
RECURSIVE Ascending(_)
Ascending(S) ==
    IF S = {} THEN << >>
    ELSE LET m == CHOOSE x \in S : \A y \in S : x <= y
         IN  <<m>> \o Ascending(S \ {m})

MarketListInputs == { Ascending(S) : S \in SUBSET Markets }

\* the MarketPrice[] the loop is quoted
LoopQuoteInputs ==
    { << MarketPrice("YES", R(3, 10), I(1000), I(10)), MarketPrice("NO", R(7, 10), I(1000), I(10)) >>,
      << MarketPrice("YES", R(9, 10), I(1000), I(10)), MarketPrice("NO", R(1, 10), I(1000), I(10)) >>,
      << MarketPrice("YES", R(1, 2), I(1000), I(10)) >> }

\* histories the loop is served: too short, flat, ending in a rise, ending in a fall
History(n, last) ==
    [i \in 1..n |-> IF i = n THEN last ELSE KLine(I(100), I(100), I(100), I(100), I(0))]

LoopKlineInputs ==
    { History(4, KLine(I(100), I(103), I(99), I(102), I(10))),
      History(10, KLine(I(100), I(100), I(100), I(100), I(0))),
      History(10, KLine(I(100), I(103), I(99), I(102), I(10))),
      History(10, KLine(I(100), I(101), I(95), I(96), I(10))) }

LoopConfig == TradingConfig(NumMarkets, I(40))

\* every outcome of fetching quotes, reference price and history for one
\* market and running analyzeMarket(symbol, market.id, prices, undefined) on
\* them: the quotes and the signal (market id filled in by the caller)
LoopAnalyses ==
    { [quoted |-> q, sig |-> analyzeMarket(0, q, cl, ks, Null, NowMs)] :
        q \in LoopQuoteInputs, cl \in ChainlinkInputs, ks \in LoopKlineInputs }

Init ==
    /\ config = LoopConfig
    /\ dailyPnL = I(0)
    /\ positions = << >>
    /\ signal = NoSignal
    /\ rmCall = NoCall
    /\ klines = NoKlines
    /\ stCall = NoCall
    /\ LoopIdle

\* start() up to the await of loadPositions
Start ==
    /\ pc = "init"
    /\ isRunning' = TRUE
    /\ pc' = "load"
    /\ submitted' = NoOrder
    /\ caught' = FALSE
    /\ UNCHANGED <<riskVars, stratVars, activeMarkets, exitIdx, cycles>>

\* loadPositions, getPositions answering one of lists: an empty answer and a
\* failure both leave the ledger alone
LoadPositionsFrom(lists) ==
    /\ pc = "load"
    /\ \E api \in Answers(lists) :
          /\ positions' = IF api.ok THEN SetAll(positions, api.value) ELSE positions
          /\ caught' = ~api.ok
    /\ pc' = "loop"
    /\ submitted' = NoOrder
    /\ UNCHANGED <<config, dailyPnL, signal, rmCall, stratVars, isRunning,
                   activeMarkets, exitIdx, cycles>>

LoadPositions == LoadPositionsFrom(ApiPositionInputs)

\* while (this.isRunning): tick() begins, getCryptoMarkets answers and the
\* markets are filtered; started is the number of ticks then started
Tick(started) ==
    /\ pc = "loop"
    /\ isRunning
    /\ \E list \in MarketListInputs : activeMarkets' = list
    /\ cycles' = started
    /\ pc' = "update"
    /\ submitted' = NoOrder
    /\ caught' = FALSE
    /\ signal' = NoSignal
    /\ rmCall' = NoCall
    /\ UNCHANGED <<config, dailyPnL, positions, stratVars, isRunning, exitIdx>>

\* the ticks of a run of at most MaxCycles cycles
TickStart == cycles < MaxCycles /\ Tick(cycles + 1)

\* while (this.isRunning) is false: start() returns
LoopExit ==
    /\ pc = "loop"
    /\ ~isRunning
    /\ pc' = "done"
    /\ submitted' = NoOrder
    /\ caught' = FALSE
    /\ UNCHANGED <<riskVars, stratVars, isRunning, activeMarkets, exitIdx, cycles>>

\* updatePositions, getPositions answering one of lists
updatePositionsFrom(lists) ==
    /\ pc = "update"
    /\ \E api \in Answers(lists) :
          /\ positions' = IF api.ok THEN SetAll(positions, api.value) ELSE positions
          /\ caught' = ~api.ok
    /\ exitIdx' = 1
    /\ pc' = "exits"
    /\ submitted' = NoOrder
    /\ UNCHANGED <<config, dailyPnL, signal, rmCall, stratVars, isRunning,
                   activeMarkets, cycles>>

updatePositions == updatePositionsFrom(ApiPositionInputs)

\* checkExitSignals: the position with its mark price and P&L refreshed
Refreshed(position, prices) ==
    LET found == FindPrice(prices, position.outcome)
        currentPrice == IF found # Null /\ Truthy(found.price)
                        THEN found.price ELSE position.currentPrice
        pnlPercent == IF position.outcome = "YES"
                      THEN Mul(Div(Sub(currentPrice, position.averagePrice),
                                   position.averagePrice), I(100))
                      ELSE Mul(Div(Sub(position.averagePrice, currentPrice),
                                   position.averagePrice), I(100))
    IN  [position EXCEPT !.currentPrice = currentPrice,
                         !.pnl = Mul(position.size, Div(pnlPercent, I(100))),
                         !.pnlPercent = pnlPercent]

\* where the iterator of checkExitSignals stands after an error thrown for one
\* position, if the error left the loop
AfterExitCaught_Abandoned(ledger, idx) == Len(ledger) + 1

\* catch (error) inside the for loop of checkExitSignals: the loop goes on
\* with the next position
AfterExitCaught(ledger, idx) == idx + 1

\* one iteration of the loop of checkExitSignals
ExitStep ==
    /\ pc = "exits"
    /\ exitIdx <= Len(positions)
    /\ \E quoted \in Answers(LoopQuoteInputs) :
          LET position == positions[exitIdx]
              marketId == position.marketId
          IN  IF ~quoted.ok
              THEN /\ positions' = positions
                   /\ dailyPnL' = dailyPnL
                   /\ exitIdx' = AfterExitCaught(positions, exitIdx)
                   /\ submitted' = NoOrder
                   /\ caught' = TRUE
              ELSE \E updated \in { Refreshed(position, quoted.value) } :
                   IF ~shouldClosePosition(updated)
                   THEN /\ positions' = [positions EXCEPT ![exitIdx] = updated]
                        /\ dailyPnL' = dailyPnL
                        /\ exitIdx' = exitIdx + 1
                        /\ submitted' = NoOrder
                        /\ caught' = FALSE
                   ELSE \E orderOk \in BOOLEAN :
                        /\ submitted' =
                               [marketId |-> marketId, outcome |-> updated.outcome,
                                side |-> "SELL", size |-> updated.size,
                                price |-> updated.currentPrice, ok |-> orderOk,
                                held |-> TRUE]
                        /\ caught' = ~orderOk
                        /\ IF orderOk
                           THEN /\ positions' = MapDelete(positions, marketId)
                                /\ dailyPnL' = updateDailyPnL(updated.pnl)
                                /\ exitIdx' = exitIdx
                           ELSE /\ positions' = [positions EXCEPT ![exitIdx] = updated]
                                /\ dailyPnL' = dailyPnL
                                /\ exitIdx' = exitIdx + 1
    /\ UNCHANGED <<config, signal, rmCall, stratVars, isRunning, pc, activeMarkets, cycles>>

\* tick going on to the entry loop without awaiting checkExitSignals
ExitDone_NotAwaited ==
    /\ pc = "exits"
    /\ pc' = "entries"
    /\ exitIdx' = 0
    /\ submitted' = NoOrder
    /\ caught' = FALSE
    /\ UNCHANGED <<riskVars, stratVars, isRunning, activeMarkets, cycles>>

\* the iterator of checkExitSignals is exhausted
ExitDone ==
    /\ pc = "exits"
    /\ exitIdx > Len(positions)
    /\ pc' = "entries"
    /\ exitIdx' = 0
    /\ submitted' = NoOrder
    /\ caught' = FALSE
    /\ UNCHANGED <<riskVars, stratVars, isRunning, activeMarkets, cycles>>

\* the markets left to the entry loop once an error thrown for one market
\* was caught, if the error left the loop instead
AfterCaught_Rethrown(rest) == << >>

\* catch (error) inside the for loop of tick: the loop goes on with the
\* markets that are left
AfterCaught(rest) == rest

\* the position handleSignal tracks, if it tracked the size the strategy
\* recommended
TrackedPosition_Recommended(sig, positionSize, targetPrice) ==
    Position(sig.marketId, sig.outcome, sig.recommendedSize, targetPrice, targetPrice,
             I(0), I(0))

\* handleSignal: the position tracked once placeOrder returned an order id
TrackedPosition(sig, positionSize, targetPrice) ==
    Position(sig.marketId, sig.outcome, positionSize, targetPrice, targetPrice, I(0), I(0))

\* one iteration of the entry loop of tick: quotes, analyzeMarket with
\* marketStartTime undefined, and handleSignal when a signal comes back;
\* analyses are the outcomes the fetches and analyzeMarket can have
EntryStepOn(analyses) ==
    /\ pc = "entries"
    /\ activeMarkets # << >>
    /\ \E analysed \in Answers(analyses) :
          LET market == Head(activeMarkets)
              quoted == analysed.value.quoted
              sig == IF ~analysed.ok \/ analysed.value.sig = Null THEN Null
                     ELSE [analysed.value.sig EXCEPT !.marketId = market]
          IN  IF sig = Null
              THEN /\ signal' = NoSignal
                   /\ rmCall' = NoCall
                   /\ positions' = positions
                   /\ submitted' = NoOrder
                   /\ caught' = ~analysed.ok
              ELSE LET currentPositions == positions
                       can == canOpenPositionResult(sig, currentPositions)
                       positionSize == adjustPositionSize(sig, currentPositions)
                       found == FindPrice(quoted, sig.outcome)
                       targetPrice == IF found # Null /\ Truthy(found.price)
                                      THEN found.price ELSE sig.probability
                   IN  /\ signal' = sig
                       /\ rmCall' = [op |-> "canOpenPosition", ret |-> can.ret,
                                     log |-> can.log]
                       /\ IF ~can.ret
                          THEN /\ positions' = positions
                               /\ submitted' = NoOrder
                               /\ caught' = FALSE
                          ELSE \E orderOk \in BOOLEAN :
                               /\ submitted' =
                                      [marketId |-> sig.marketId, outcome |-> sig.outcome,
                                       side |-> "BUY", size |-> positionSize,
                                       price |-> targetPrice, ok |-> orderOk,
                                       held |-> HasPosition(positions, sig.marketId)]
                               /\ caught' = ~orderOk
                               /\ positions' =
                                      IF orderOk
                                      THEN MapSet(positions,
                                               TrackedPosition(sig, positionSize, targetPrice))
                                      ELSE positions
    /\ activeMarkets' = IF caught' THEN AfterCaught(Tail(activeMarkets))
                        ELSE Tail(activeMarkets)
    /\ UNCHANGED <<config, dailyPnL, stratVars, isRunning, pc, exitIdx, cycles>>

EntryStep == EntryStepOn(LoopAnalyses)

\* the entry loop is over: printStatus, and tick returns
EntryDone ==
    /\ pc = "entries"
    /\ activeMarkets = << >>
    /\ pc' = "sleep"
    /\ submitted' = NoOrder
    /\ caught' = FALSE
    /\ signal' = NoSignal
    /\ rmCall' = NoCall
    /\ UNCHANGED <<config, dailyPnL, positions, stratVars, isRunning, activeMarkets,
                   exitIdx, cycles>>

\* await this.sleep(pollIntervalMs)
Sleep ==
    /\ pc = "sleep"
    /\ pc' = "loop"
    /\ submitted' = NoOrder
    /\ caught' = FALSE
    /\ UNCHANGED <<riskVars, stratVars, isRunning, activeMarkets, exitIdx, cycles>>

\* TradingBot.stop(), called at any await of the running bot
stop ==
    /\ pc \notin {"init", "done", "exited"}
    /\ isRunning
    /\ isRunning' = FALSE
    /\ submitted' = NoOrder
    /\ caught' = FALSE
    /\ UNCHANGED <<riskVars, stratVars, pc, activeMarkets, exitIdx, cycles>>

\* the SIGINT/SIGTERM handler of main: bot.stop() and process.exit(0)
Shutdown ==
    /\ pc \notin {"init", "done", "exited"}
    /\ isRunning' = FALSE
    /\ pc' = "exited"
    /\ submitted' = NoOrder
    /\ caught' = FALSE
    /\ UNCHANGED <<riskVars, stratVars, activeMarkets, exitIdx, cycles>>

Next ==
    \/ Start
    \/ LoadPositions
    \/ TickStart
    \/ LoopExit
    \/ updatePositions
    \/ ExitStep
    \/ ExitDone
    \/ EntryStep
    \/ EntryDone
    \/ Sleep
    \/ stop
    \/ Shutdown

Spec == Init /\ [][Next]_vars

\* ---------------------------------------------------------------------------
\* Properties of the trading loop
\* ---------------------------------------------------------------------------

\* no two entries of the ledger are for the same market
OnePositionPerMarket ==
    \A i, j \in 1..Len(positions) :
        positions[i].marketId = positions[j].marketId => i = j

\* C1: through every run of trading cycles (updatePositions, checkExitSignals,
\* the entry loop with handleSignal) the ledger holds at most one position per
\* market id, and no BUY order is submitted for a market that has a position
\* in the ledger when the order is submitted
C1_OnePositionPerMarket ==
    /\ OnePositionPerMarket
    /\ submitted.side = "BUY" => ~submitted.held

\* a signal for a market held in the ledger was handled and refused, no order placed
C1_Witness ==
    /\ pc = "entries"
    /\ signal # NoSignal
    /\ HasPosition(positions, signal.marketId)
    /\ rmCall.log = "Already have a position in this market"
    /\ submitted = NoOrder

DailyLimitReached == Le(dailyPnL, Neg(config.maxDailyLossUsd))

\* signals that differ in all canOpenPosition reads of a signal: a market
\* held or not held by the ledger it is asked about, a size below or above $1
CutoffSignals ==
    { sig \in SignalInputs : sig.confidence = I(1) /\ sig.recommendedSize \in {I(0), I(80)} }

\* C3: whenever dailyPnL <= -maxDailyLossUsd, canOpenPosition returns false for
\* every signal and every list of open positions, and no BUY order is
\* submitted in such a state
C3_DailyLossCutoff ==
    /\ DailyLimitReached =>
           \A sig \in CutoffSignals, currentPositions \in LedgerInputs :
               ~canOpenPosition(sig, currentPositions)
    /\ submitted.side = "BUY" => ~DailyLimitReached

\* stop-losses took dailyPnL down to the limit and a signal was then refused
C3_Witness ==
    /\ pc = "entries"
    /\ DailyLimitReached
    /\ signal # NoSignal
    /\ rmCall.log = "Daily loss limit reached"
    /\ submitted = NoOrder

\* a cycle is in flight from the head of tick to the end of its entry loop
InFlight == pc \in {"update", "exits", "entries"}

\* C11: when the stop signal (the SIGINT/SIGTERM handler calling bot.stop())
\* arrives while a cycle is in flight, the cycle runs to completion and the
\* loop halts only at the next cycle boundary: no step takes a cycle in flight
\* anywhere but further into the cycle or to its end, and no cycle starts
\* once the bot is stopped.
C11_GracefulDrain ==
    [][/\ InFlight => pc' \in {"update", "exits", "entries", "sleep"}
       /\ ~isRunning => cycles' = cycles]_vars

\* C12: an error thrown while fetching quotes, bars or the reference price,
\* while analysing or while ordering for one market never ends the trading
\* loop: the step that catches it leaves isRunning alone and goes on with the
\* next position or market of the same cycle, a finished cycle returns to the
\* head of the loop, and start() returns only once isRunning is false.
C12_FailureNeverStopsLoop ==
    [][/\ caught' =>
            /\ isRunning' = isRunning
            /\ pc' = (IF pc = "load" THEN "loop" ELSE IF pc = "update" THEN "exits" ELSE pc)
            /\ pc = "entries" => activeMarkets' = Tail(activeMarkets)
            /\ pc = "exits" => exitIdx' = exitIdx + 1 /\ Len(positions') = Len(positions)
       /\ pc = "sleep" => pc' \in {"sleep", "loop", "exited"}
       /\ pc' = "done" => ~isRunning]_vars

\* an error was caught for one market while other markets of the cycle are
\* still to be processed by the running bot
C12_Witness ==
    /\ caught
    /\ pc = "entries"
    /\ activeMarkets # << >>
    /\ isRunning

\* C13: dailyPnL changes only in the step of checkExitSignals whose SELL
\* order was placed successfully, and then by exactly the pnl of the position
\* closed; every other step (risk checks, sizing, opening a position, mark
\* price updates, failed orders) leaves it unchanged.
C13_PnLOnlyOnRealizedExit ==
    [][IF pc = "exits" /\ submitted'.side = "SELL" /\ submitted'.ok
       THEN LET closed == positions[exitIdx]
                move == IF closed.outcome = "YES"
                        THEN Sub(submitted'.price, closed.averagePrice)
                        ELSE Sub(closed.averagePrice, submitted'.price)
            IN  dailyPnL' = Add(dailyPnL, Mul(closed.size, Div(move, closed.averagePrice)))
       ELSE dailyPnL' = dailyPnL]_vars

\* a second exit was realized on top of an earlier loss
C13_Witness ==
    /\ pc = "exits"
    /\ submitted.side = "SELL"
    /\ submitted.ok
    /\ Lt(dailyPnL, I(-100))

\* C20: for a market with a signal the entry steps are canOpenPosition, then
\* adjustPositionSize, then the order, then the ledger upsert: an order is
\* submitted only after canOpenPosition returned true and carries the adjusted
\* size; the position enters the ledger only when placeOrder returned, with
\* the adjusted size, entry price = mark price = the submitted price and
\* pnl = pnlPercent = 0; when canOpenPosition is false or the order fails the
\* ledger and dailyPnL are unchanged.
C20_EntrySequence ==
    [][(pc = "entries" /\ activeMarkets # << >>) =>
          /\ submitted'.side = "BUY" =>
                /\ rmCall'.op = "canOpenPosition" /\ rmCall'.ret
                /\ submitted'.marketId = signal'.marketId
                /\ submitted'.outcome = signal'.outcome
                /\ submitted'.size = adjustPositionSize(signal', positions)
          /\ (rmCall' # rmCall /\ rmCall'.op = "canOpenPosition" /\ ~rmCall'.ret)
                => submitted' = NoOrder
          /\ IF submitted'.side = "BUY" /\ submitted'.ok
             THEN positions' = MapSet(positions,
                      Position(submitted'.marketId, submitted'.outcome, submitted'.size,
                               submitted'.price, submitted'.price, I(0), I(0)))
             ELSE positions' = positions
          /\ dailyPnL' = dailyPnL]_vars

\* an order of an adjusted size, different from the recommended one, was
\* placed and its position entered the ledger
C20_Witness ==
    /\ pc = "entries"
    /\ submitted.side = "BUY"
    /\ submitted.ok
    /\ submitted.size # signal.recommendedSize
    /\ \E i \in 1..Len(positions) :
          /\ positions[i].marketId = submitted.marketId
          /\ positions[i].size = submitted.size
          /\ positions[i].averagePrice = submitted.price

----------------------------------------------------------------------------
(* Further properties of the ShortTermStrategy *)

\* the last analyzeMarket call got both quotes and enough bars to compute
CallComputed ==
    /\ stCall.op = "analyzeMarket"
    /\ CallYes # Null /\ CallNo # Null
    /\ Len(klines) >= 10

\* the factors of the last analyzeMarket call, had the reference price been cl
CallFactorsWith(cl) ==
    AnalyzeFactors(klines, CallYes, cl, stCall.marketStartTime, stCall.now)

\* C14: when the reference price is absent (getPrice returns null or throws)
\* analyzeMarket does not fail: pricingDeviation is 0, the other four factors
\* are what they are with a reference price, and the signal is the one
\* combined from these factors.
C14_ReferencePriceAbsent ==
    (CallComputed /\ stCall.chainlinkPrice \in {Null, Throws}) =>
        \E f \in { CallFactorsWith(stCall.chainlinkPrice) },
           g \in { CallFactorsWith([price |-> I(100)]) },
           c \in { CombinedScore(CallFactorsWith(stCall.chainlinkPrice)) } :
            /\ stCall.ret # Throws
            /\ f.pricingDeviation = I(0)
            /\ f = [g EXCEPT !.pricingDeviation = I(0)]
            /\ c.factors = f
            /\ stCall.ret # Null =>
                   /\ stCall.ret.outcome = c.direction
                   /\ stCall.ret.confidence = c.confidence
                   /\ stCall.ret.signalStrength = c.signalStrength

\* fetching the reference price threw on bars whose momentum is not neutral
\* and whose pricing deviation, had the price arrived, would not be 0
C14_Witness ==
    /\ CallComputed
    /\ stCall.chainlinkPrice = Throws
    /\ stCall.ret # Throws
    /\ \E f \in { CallFactorsWith(Throws) }, g \in { CallFactorsWith([price |-> I(100)]) } :
          /\ IsFinite(f.momentum) /\ f.momentum # I(0)
          /\ f.pricingDeviation = I(0)
          /\ IsFinite(g.pricingDeviation) /\ g.pricingDeviation # I(0)

\* the values Date.now() returns to two invocations: 4 and 9 minutes after
\* the earlier market start
ClockInputs == { NowMs, I(900000) }

\* C15: factor extraction and signal combination are functions of the bars,
\* the reference price, the quotes, the 24h volume and marketStartTime: a
\* second invocation on the same inputs returns the same factors and the same
\* signal, whatever the wall-clock time of the second invocation.
C15_Deterministic ==
    stCall.op = "analyzeMarket" =>
        \A now \in ClockInputs :
            /\ analyzeMarket(1, stCall.prices, stCall.chainlinkPrice, klines,
                             stCall.marketStartTime, now) = stCall.ret
            /\ CallComputed =>
                   AnalyzeFactors(klines, CallYes, stCall.chainlinkPrice,
                                  stCall.marketStartTime, now)
                       = CallFactorsWith(stCall.chainlinkPrice)

\* the score of C16, written from the formula
ScoreFormula(f) ==
    LET m == IF Gt(MathAbs(f.momentum), StrategyConfig.momentumThreshold)
             THEN f.momentum ELSE I(0)
        pr == IF Gt(MathAbs(f.pricingDeviation), StrategyConfig.pricingDeviationThreshold)
              THEN Neg(f.pricingDeviation) ELSE I(0)
        volBoost == IF Gt(f.volatility, R(1, 2)) THEN R(12, 10) ELSE I(1)
        volumeBoost == IF Gt(f.volumeAnomaly, R(1, 2)) THEN R(11, 10) ELSE I(1)
    IN  Add(Add(Add(Mul(Mul(m, R(4, 10)), volBoost), Mul(pr, R(25, 100))),
                Mul(f.timeFactor, R(1, 10))),
            Mul(Sub(Mul(m, volumeBoost), m), R(1, 10)))

\* C16: combineFactors computes score = m*0.40*volBoost + p*0.25 +
\* timeFactor*0.10 + (m*volumeBoost - m)*0.10 with m, p, volBoost and
\* volumeBoost gated by their thresholds; direction is YES iff score > 0, and
\* strength = min(1, |score|).
C16_WeightedSum ==
    CallComputed =>
        \E c \in { CallCombined } :
        \E score \in { ScoreFormula(c.factors) } :
            /\ c.combinedScore = score
            /\ c.direction = "YES" <=> Gt(score, I(0))
            /\ c.direction \in {"YES", "NO"}
            /\ c.signalStrength = MathMin(I(1), MathAbs(score))

\* every term of the sum is active: momentum and pricing deviation above their
\* thresholds, both boosts on
C16_Witness ==
    /\ CallComputed
    /\ \E c \in { CallCombined } :
          /\ IsFinite(c.combinedScore)
          /\ Gt(MathAbs(c.factors.momentum), StrategyConfig.momentumThreshold)
          /\ Gt(MathAbs(c.factors.pricingDeviation), StrategyConfig.pricingDeviationThreshold)
          /\ Gt(c.factors.volatility, R(1, 2))
          /\ Gt(c.factors.volumeAnomaly, R(1, 2))
          /\ c.combinedScore # I(0)

\* the 50 bars of the last call are flat
CallFlat == klines \in FlatHistories

FactorsFrom(n) == stCall.op = "factors" /\ Len(klines) >= n

\* C18: with a reference price and at least 5 bars, pricingDeviation =
\* clamp(2 * (quoteProbability - estimatedProbability), -1, 1) where
\* estimatedProbability = clamp(0.5 + 10*trend, 0.3, 0.7) and trend is the
\* relative change of the close over the last 5 bars.
C18_ClampedEstimate ==
    (FactorsFrom(5) /\ stCall.pricingDeviation # Null) =>
        \E first \in { klines[Len(klines) - 4].close }, last \in { klines[Len(klines)].close } :
        \E trend \in { Div(Sub(last, first), first) } :
        \E estimate \in { Clamp(Add(R(1, 2), Mul(trend, I(10))), R(3, 10), R(7, 10)) } :
            stCall.pricingDeviation
                = Clamp(Mul(I(2), Sub(CallYes.price, estimate)), I(-1), I(1))

\* C19: with at least volatilityPeriod bars the volatility factor equals
\* clamp((average true range / average close) / highVolatilityMultiplier, 0, 1)
\* over the last volatilityPeriod bars.
C19_VolatilityRatio ==
    FactorsFrom(StrategyConfig.volatilityPeriod) =>
        \E recent \in { SliceLast(klines, StrategyConfig.volatilityPeriod) } :
        \E ranges \in { [j \in 1..(Len(recent) - 1) |->
                           MathMax(MathMax(Sub(recent[j + 1].high, recent[j + 1].low),
                                           MathAbs(Sub(recent[j + 1].high, recent[j].close))),
                                   MathAbs(Sub(recent[j + 1].low, recent[j].close)))] },
           closes \in { [j \in 1..Len(recent) |-> recent[j].close] } :
        \E ratio \in { Div(Div(SumSeq(ranges), I(Len(ranges))),
                           Div(SumSeq(closes), I(Len(closes)))) } :
            stCall.volatility
                = Clamp(Div(ratio, StrategyConfig.highVolatilityMultiplier), I(0), I(1))

----------------------------------------------------------------------------
(* Further properties of the trading loop *)

\* the position as checkExitSignals leaves it once it was quoted price for its
\* outcome
Marked(position, price) ==
    Refreshed(position, << MarketPrice(position.outcome, price, I(0), I(0)) >>)

\* the ledger entries, as a set
Held(ledger) == { ledger[i] : i \in 1..Len(ledger) }

\* C21: in an iteration of checkExitSignals where shouldClosePosition is true
\* a SELL order is submitted; the position leaves the ledger and dailyPnL
\* grows by the position's pnl if and only if the submission succeeds, in one
\* step; if it fails the position stays, with its refreshed mark price and
\* pnl, and dailyPnL is unchanged.  Where shouldClosePosition is false
\* nothing is removed.
C21_CloseIffOrderPlaced ==
    [][(pc = "exits" /\ exitIdx <= Len(positions)) =>
          \E position \in { positions[exitIdx] } :
             /\ submitted'.side = "SELL" =>
                   \E updated \in { Marked(position, submitted'.price) } :
                      /\ shouldClosePosition(updated)
                      /\ submitted'.marketId = position.marketId
                      /\ submitted'.size = position.size
                      /\ IF submitted'.ok
                         THEN /\ ~HasPosition(positions', position.marketId)
                              /\ Held(positions') = Held(positions) \ { position }
                              /\ Len(positions') = Len(positions) - 1
                              /\ dailyPnL' = Add(dailyPnL, updated.pnl)
                         ELSE /\ positions' = [positions EXCEPT ![exitIdx] = updated]
                              /\ dailyPnL' = dailyPnL
             /\ submitted'.side # "SELL" =>
                   /\ Len(positions') = Len(positions)
                   /\ dailyPnL' = dailyPnL
                   /\ (exitIdx' = exitIdx + 1 /\ ~caught') =>
                          ~shouldClosePosition(positions'[exitIdx])]_vars

\* a close order failed: the position is still in the ledger, marked at the
\* price of the failed order and at a loss
C21_Witness ==
    /\ pc = "exits"
    /\ submitted.side = "SELL"
    /\ ~submitted.ok
    /\ \E i \in 1..Len(positions) :
          /\ positions[i].marketId = submitted.marketId
          /\ positions[i].currentPrice = submitted.price
          /\ Lt(positions[i].pnl, I(0))

\* a step of checkExitSignals on the position the iterator is at (stop() alone
\* moves neither the iterator nor the ledger)
ExitIteration ==
    /\ pc = "exits" /\ pc' = "exits"
    /\ exitIdx <= Len(positions)
    /\ (exitIdx' # exitIdx \/ positions' # positions)

\* C22: in every cycle checkExitSignals visits every position of the ledger:
\* updatePositions keeps every market the ledger held when the cycle started
\* and hands over to checkExitSignals at the first position, whatever the
\* market list and the earlier entry steps did; each iteration refreshes the
\* mark price of its position and evaluates shouldClosePosition on it, or, when
\* the quote fetch fails, leaves mark price and pnl as they were; either way it
\* leaves the other positions alone and goes on with the next one, and the
\* entry loop begins only once the iterator is exhausted.
C22_EveryPositionEvaluated ==
    [][/\ pc = "loop" /\ pc' # "loop" => pc' \in {"update", "done", "exited"}
       /\ pc = "update" /\ pc' \notin {"update", "exited"} =>
              /\ pc' = "exits"
              /\ exitIdx' = 1
              /\ \A p \in Held(positions) : HasPosition(positions', p.marketId)
       /\ pc = "exits" /\ pc' \notin {"exits", "exited"} =>
              /\ pc' = "entries"
              /\ exitIdx > Len(positions)
       /\ ExitIteration =>
              /\ \A i \in 1..Len(positions) :
                     i # exitIdx => positions[i] \in Held(positions')
              /\ IF caught' /\ submitted' = NoOrder
                 THEN /\ positions' = positions
                      /\ exitIdx' = exitIdx + 1
                 ELSE \E quoted \in LoopQuoteInputs :
                      \E updated \in { Refreshed(positions[exitIdx], quoted) } :
                         IF shouldClosePosition(updated)
                         THEN /\ submitted'.side = "SELL"
                              /\ submitted'.price = updated.currentPrice
                              /\ \/ /\ submitted'.ok
                                    /\ exitIdx' = exitIdx
                                    /\ Len(positions') = Len(positions) - 1
                                 \/ /\ ~submitted'.ok
                                    /\ exitIdx' = exitIdx + 1
                                    /\ positions'[exitIdx] = updated
                         ELSE /\ submitted' = NoOrder
                              /\ exitIdx' = exitIdx + 1
                              /\ positions' = [positions EXCEPT ![exitIdx] = updated]]_vars

\* the quote fetch failed for the first of two positions, which keeps its
\* mark, and the second was then refreshed and evaluated
C22_Witness ==
    /\ pc = "exits"
    /\ Len(positions) = 2
    /\ exitIdx = 3
    /\ ~caught
    /\ positions[1].currentPrice = positions[1].averagePrice
    /\ positions[1].pnl = I(0)
    /\ positions[2].currentPrice # positions[2].averagePrice
    /\ positions[2].pnl # I(0)

\* C24: cycles neither overlap nor reorder.  Close orders are decided only
\* in checkExitSignals and entry orders only in the entry loop; the entry loop
\* of a cycle begins only when checkExitSignals has gone through the whole
\* ledger, and ends, with every market processed, before the next tick begins;
\* each tick starts a new cycle.  So a position opened in cycle n is first
\* evaluated for closing in cycle n+1.
C24_CyclesInOrder ==
    [][/\ submitted'.side = "SELL" => (pc = "exits" /\ pc' = "exits")
       /\ submitted'.side = "BUY" => (pc = "entries" /\ pc' = "entries")
       /\ (pc' = "update" /\ pc # "update") => (pc = "loop" /\ cycles' = cycles + 1)
       /\ pc' = pc \/ pc # "loop" => cycles' = cycles
       /\ (pc' = "exits" /\ pc # "exits") => pc = "update"
       /\ (pc' = "entries" /\ pc # "entries") =>
              (pc = "exits" /\ exitIdx > Len(positions))
       /\ (pc' = "sleep" /\ pc # "sleep") => (pc = "entries" /\ activeMarkets = << >>)
       /\ pc = "entries" => pc' \in {"entries", "sleep", "exited"}
       /\ pc = "sleep" => pc' \in {"sleep", "loop", "exited"}]_vars

\* a position opened by the entry loop of the first cycle was refreshed by
\* checkExitSignals in the second
C24_Witness ==
    /\ pc = "exits"
    /\ cycles = 2
    /\ \E i \in 1..Len(positions) :
          /\ i < exitIdx
          /\ Le(positions[i].size, config.maxPositionSizeUsd)
          /\ positions[i].pnl # I(0)

\* positions of positive size as checkExitSignals marks them: at a loss, flat
\* and at a gain
MarkedInputs ==
    { Marked(Position(1, outcome, size, R(1, 2), R(1, 2), I(0), I(0)), price) :
        outcome \in {"YES", "NO"}, size \in {I(40), I(100), I(250)},
        price \in {R(3, 10), R(1, 2), R(7, 10), R(9, 10)} }

----------------------------------------------------------------------------
(* The trading loop with locally tracked positions only: the positions API
   answers nothing (no endpoint, or no private key), and the configuration
   allows fewer positions than there are markets *)

LocalConfig == TradingConfig(NumMarkets - 1, I(40))

InitLocal ==
    /\ config = LocalConfig
    /\ dailyPnL = I(0)
    /\ positions = << >>
    /\ signal = NoSignal
    /\ rmCall = NoCall
    /\ klines = NoKlines
    /\ stCall = NoCall
    /\ LoopIdle

NextLocal ==
    \/ Start
    \/ LoadPositionsFrom({ << >> })
    \/ TickStart
    \/ LoopExit
    \/ updatePositionsFrom({ << >> })
    \/ ExitStep
    \/ ExitDone
    \/ EntryStep
    \/ EntryDone
    \/ Sleep
    \/ stop
    \/ Shutdown

SpecLocal == InitLocal /\ [][NextLocal]_vars

\* C27: when getPositions always answers the empty list the ledger never
\* holds more than maxPositions positions, in any state of any cycle, also
\* between two entry steps of one cycle.
C27_LedgerWithinLimit == Len(positions) <= config.maxPositions

\* in the first cycle a market's signal was refused because the positions
\* opened earlier in the same cycle fill the ledger
C27_Witness ==
    /\ pc = "entries"
    /\ cycles = 1
    /\ Len(positions) = config.maxPositions
    /\ signal # NoSignal
    /\ ~HasPosition(positions, signal.marketId)
    /\ rmCall.log = "Maximum positions limit reached"

----------------------------------------------------------------------------
(* A caller of the RiskManager and of the position sizer together *)

InitReadOnly ==
    /\ config = DefaultConfig
    /\ dailyPnL \in { I(-60), I(0) }
    /\ positions \in { ledger \in LedgerInputs : Len(ledger) <= 2 }
    /\ signal \in CutoffSignals
    /\ rmCall = NoCall
    /\ klines = NoKlines
    /\ stCall = NoCall
    /\ LoopIdle

NextReadOnly ==
    \/ NextRisk
    \/ CallCalculatePositionSize

SpecReadOnly == InitReadOnly /\ [][NextReadOnly]_vars

\* C25: canOpenPosition, adjustPositionSize, shouldClosePosition and
\* calculatePositionSize return a decision and write nothing: a call of any of
\* them leaves the ledger (the positions and each of their fields), the daily
\* PnL and the configuration as they were.
C25_DecisionsReadOnly ==
    [][(rmCall' # rmCall \/ stCall' # stCall) =>
          /\ positions' = positions
          /\ dailyPnL' = dailyPnL
          /\ config' = config]_vars

\* shouldClosePosition answered true and the sizer returned a size, on a
\* ledger that holds positions and a day that has a loss
C25_Witness ==
    /\ rmCall.op = "shouldClosePosition"
    /\ rmCall.ret
    /\ stCall.op = "calculatePositionSize"
    /\ positions # << >>
    /\ dailyPnL = I(-60)

----------------------------------------------------------------------------
(* The trading loop left running: no stop() and no signal, no bound on the
   number of cycles.  The positions come from loadPositions, getPositions
   answers nothing afterwards and no market yields a signal, so the ledger
   only shrinks. *)

\* what parsePositions builds for loadPositions
RetryPosition(marketId, outcome) ==
    Position(marketId, outcome, I(100), R(1, 2), R(1, 2), I(0), I(0))

RetryPositionInputs ==
    { << >>, << RetryPosition(1, "YES") >>,
      << RetryPosition(1, "YES"), RetryPosition(2, "NO") >> }

\* the analyses that end without a signal
RetryAnalyses == { a \in LoopAnalyses : a.sig = Null }

\* the ticks of an unbounded run: cycles counts them up to MaxCycles
TickAgain == Tick(IF cycles < MaxCycles THEN cycles + 1 ELSE cycles)

NextRetry ==
    \/ Start
    \/ LoadPositionsFrom(RetryPositionInputs)
    \/ TickAgain
    \/ updatePositionsFrom({ << >> })
    \/ ExitStep
    \/ ExitDone
    \/ EntryStepOn(RetryAnalyses)
    \/ EntryDone
    \/ Sleep

\* an iteration of checkExitSignals on the position of market m in which
\* nothing fails: the quotes arrive and the order, if one is placed, is accepted
ExitSucceeds(m) ==
    /\ ExitStep
    /\ ~caught'
    /\ positions[exitIdx].marketId = m

\* every await of the loop returns or throws in the end, and for each position
\* the failures of the quote fetch and of the order submission are transient
SpecRetry ==
    /\ Init
    /\ [][NextRetry]_vars
    /\ WF_vars(NextRetry)
    /\ \A m \in Markets : SF_vars(ExitSucceeds(m))

\* the exit trigger of a position: stop loss hit, or its loss would take the
\* day to the daily loss limit
ExitTrigger(position) ==
    \/ Le(position.pnlPercent, Neg(config.stopLossPercent))
    \/ Le(Add(dailyPnL, position.pnl), Neg(config.maxDailyLossUsd))

\* the position of market m was just refreshed and its exit trigger does not hold
TriggerSeenOff(m) ==
    /\ pc = "exits"
    /\ exitIdx > 1 /\ exitIdx - 1 <= Len(positions)
    /\ ~caught /\ submitted = NoOrder
    /\ positions[exitIdx - 1].marketId = m
    /\ ~ExitTrigger(positions[exitIdx - 1])

\* C23: a failed quote fetch or close order is retried in the following
\* cycles: while the loop is not stopped and failures are transient, every
\* position of the ledger is eventually removed, unless its exit trigger is
\* seen not to hold.
C23_RetryUntilClosed ==
    \A m \in Markets :
        HasPosition(positions, m) ~> (~HasPosition(positions, m) \/ TriggerSeenOff(m))

\* in a later cycle the quote fetch failed for a position that is still in
\* the ledger with its exit trigger holding since an earlier failed close
C23_Witness ==
    /\ pc = "exits"
    /\ cycles >= 2
    /\ caught /\ submitted = NoOrder
    /\ exitIdx > 1 /\ exitIdx - 1 <= Len(positions)
    /\ ExitTrigger(positions[exitIdx - 1])

----------------------------------------------------------------------------
(* The reference price and the volatility factor in the decisions *)

\* the last analyzeMarket call was made as TradingBot.tick makes it, without a
\* market start time, and got no reference price
CallWithoutReference ==
    /\ stCall.op = "analyzeMarket"
    /\ stCall.marketStartTime = Null
    /\ stCall.chainlinkPrice \in {Null, Throws}

AverageTrueRange(ks) ==
    LET recent == SliceLast(ks, StrategyConfig.volatilityPeriod)
        ranges == [j \in 1..(Len(recent) - 1) |->
                      MathMax(MathMax(Sub(recent[j + 1].high, recent[j + 1].low),
                                      MathAbs(Sub(recent[j + 1].high, recent[j].close))),
                              MathAbs(Sub(recent[j + 1].low, recent[j].close)))]
    IN  Div(SumSeq(ranges), I(Len(ranges)))

\* the bars of the last call moved: there are volatilityPeriod of them or
\* more and their average true range is positive
CallRanging ==
    /\ Len(klines) >= StrategyConfig.volatilityPeriod
    /\ Gt(AverageTrueRange(klines), I(0))

InSeq(x, s) == \E i \in 1..Len(s) : s[i] = x

ReferenceInputs ==
    { [price |-> I(100)], [price |-> I(200)], [price |-> I(1)], [price |-> R(1011, 10)] }

\* the last analyzeMarket call got a reference price
CallWithReference ==
    /\ stCall.op = "analyzeMarket"
    /\ stCall.chainlinkPrice \notin {Null, Throws}

====
